---- MODULE Spec2Model ----
(***************************************************************************)
(* A model of haven_reticulum.py: the rnsh session (RnshSession), the      *)
(* transport callbacks that drive it, the module-level session registry    *)
(* (_sessions guarded by _lock), the bootstrap of the transport            *)
(* (init_reticulum, probe_sideband, _ensure_gateway) and the discovery of  *)
(* rnsh destinations (received_announce, get_discovered_destinations).     *)
(*                                                                         *)
(* Caller threads run the module functions and the session's methods; one  *)
(* transport thread runs the link and channel callbacks.  Every statement  *)
(* that another thread can observe between is a step of its own.           *)
(***************************************************************************)
EXTENDS Integers, Sequences, FiniteSets, TLC

\* ---- bounds ----
NSess == 2        \* RnshSession objects constructed in a run
MaxMsgs == 2      \* inbound channel messages dispatched to one session
MaxSent == 1      \* send_input / resize transmissions on one channel

Sess == 1..NSess
\* The caller threads: the host UI's thread and a session's reader thread
\* (the transport's own thread runs the callbacks).
Threads == {"ui", "reader"}

\* Python's None where a session object is expected.
NoSession == 0
\* No thread holds _lock.
NoThread == "nobody"

\* session identifiers the callers supply, and "" where none is involved
Ids == {"A", "B"}
NoId == ""

\* destination hashes: one whose identity RNS.Identity.recall knows, one not
Dests == {"known", "unknown"}

\* b""
NoBytes == <<>>
\* bytes the caller passes to send_input
Inputs == {<<7>>}
\* (rows, cols) the caller passes to create_session, and to resize
Geoms == {<<24, 80>>, <<40, 100>>}
Resized == <<50, 132>>

\* ---- the endpoints init_reticulum and probe_sideband are called with ----
\* the port of Sideband's shared instance, line 38
SidebandPort == 37428
Hosts == {"127.0.0.1", "localhost", "gw.example"}
Ports == {SidebandPort, 4242}
Endpoints == Hosts \X Ports

\* _reticulum = None; otherwise the n-th RNS.Reticulum built by this
\* process and its is_connected_to_shared_instance
NoReticulum == [n |-> 0, is_connected_to_shared_instance |-> FALSE]
\* _identity = None, and no haven_identity file
NoIdentity == "None"
\* the identity a previous run stored, and the one RNS.Identity() makes
Identities == {"stored", "generated"}
\* (host, port) not in _gateways
Absent == "absent"

\* ---- rnsh destinations heard in announces ----
MaxHops == 2
Announcers == {"d1", "d2", "d3"}
\* the hop count line 203 starts from when the path table has no entry
UnknownHops == -1
\* the sort key of line 226 for an entry with no known hop count
UnknownKey == 999
HopCounts == 0..MaxHops

\* no get_discovered_destinations call is running
NoIter == [pc |-> "idle", used |-> 0, pos |-> 0, results |-> <<>>, seen |-> {}]
\* no bootstrap / discovery function was the last step
NoCall == [f |-> "none", host |-> "", port |-> 0, v |-> [k |-> "none", v |-> <<>>]]
\* how many announces arrive while one get_discovered_destinations runs
MaxOverlap == 2

\* ---- Python values returned to the caller ----
Bytes(b) == [k |-> "bytes", v |-> b]
PyNone == [k |-> "None", v |-> <<>>]
PyTrue == [k |-> "True", v |-> <<>>]
PyFalse == [k |-> "False", v |-> <<>>]
PyStr(id) == [k |-> "str", v |-> <<id>>]
Raised(what) == [k |-> "raise", v |-> <<what>>]
\* json.dumps(results): the list it encodes, a sequence of [hash, hops]
Json(results) == [k |-> "json", v |-> results]
\* close_all's list before it is taken
NoSnap == [all |-> {}, todo |-> {}]
\* the last step was no return
NoEvent == [t |-> NoThread, f |-> "none", at |-> "none", s |-> 0, id |-> "", all |-> {}, v |-> [k |-> "none", v |-> <<>>]]

\* ---- rnsh protocol messages ----
VersionInfoMessage == [type |-> "VersionInfo"]
ExecuteCommandMesssage(cmdline, rows, cols) ==
    [type |-> "ExecuteCommand", cmdline |-> cmdline, rows |-> rows, cols |-> cols,
     hpix |-> 0, vpix |-> 0]
WindowSizeMessage(rows, cols) ==
    [type |-> "WindowSize", rows |-> rows, cols |-> cols, hpix |-> 0, vpix |-> 0]
StreamDataMessage(stream_id, data, eof, compressed) ==
    [type |-> "StreamData", stream_id |-> stream_id, data |-> data, eof |-> eof,
     compressed |-> compressed, fatal |-> FALSE]
CommandExitedMessage ==
    [type |-> "CommandExited", stream_id |-> 0, data |-> <<>>, eof |-> FALSE,
     compressed |-> FALSE, fatal |-> FALSE]
ErrorMessage(fatal) ==
    [type |-> "Error", stream_id |-> 0, data |-> <<>>, eof |-> FALSE,
     compressed |-> FALSE, fatal |-> fatal]

VARIABLES
    \* per RnshSession object
    life,          \* "unused" | "free" | "new" | "connecting" | "failed" | "done"
    _link,         \* "none" | "pending" | "active" | "torndown" | "closed"
    _channel,      \* TRUE once link.get_channel() is stored
    _closed,
    _connected,
    geom,          \* <<_rows, _cols>>
    _output_queue, \* FIFO of Bytes(..) and PyNone
    \* what the environment saw of each session
    sent,          \* messages transmitted on the session's channel, in order
    delivered,     \* stream-data payloads the channel dispatched, in order
    returned,      \* data chunks read_output returned, in order
    nmsg,          \* inbound messages dispatched so far
    exit_seen,     \* "no"; "exited" once command-exited was dispatched;
                   \* "reported" once a read_output after that returned None
    \* the registry
    _sessions,     \* session id -> session object or NoSession
    _lock,         \* the thread inside "with _lock", or NoThread
    \* per caller thread
    pc, op, cur, aid, snap,
    \* what the last step returned to its caller, if it was a return
    ev,
    \* the transport thread: position inside _on_link_established
    tpc, tcur

VARIABLES
    \* the module's globals, lines 19-25
    _reticulum,        \* NoReticulum, or the RNS.Reticulum instance
    _init_mode,        \* "None" | "sideband" | "gateway"
    _gateways,         \* (host, port) -> Absent | "None" | "TCPClientInterface"
    _identity,         \* NoIdentity, or the identity's hexhash
    _announce_handler, \* TRUE once the handler is registered with the transport
    _announced,        \* the dict as a sequence of [hash, hops], in insertion order
    \* what the module functions leave outside the module
    disk,              \* the haven_identity file: NoIdentity, or the hash stored
    attached,          \* (host, port) -> interfaces the transport has for it
    heard,             \* the latest announce of each destination: [hash, hops]
    \* get_discovered_destinations: the caller's position in its loop
    iter,
    \* the last call of a bootstrap / discovery function and what it returned
    ret

svars == <<life, _link, _channel, _closed, _connected, geom, _output_queue>>
hvars == <<sent, delivered, returned, nmsg, exit_seen>>
rvars == <<_sessions, _lock>>
cvars == <<pc, op, cur, aid, snap>>
tvars == <<tpc, tcur>>
gvars == <<_reticulum, _init_mode, _gateways, _identity, _announce_handler,
           _announced, disk, attached, heard, iter, ret>>
sessvars == <<svars, hvars, rvars, cvars, tvars, ev>>
vars == <<svars, hvars, rvars, cvars, tvars, ev, gvars>>

\* The sessions' part of the state at import: the registry is empty, no
\* thread is in a call, and the RnshSession objects in `objs` will be
\* constructed, each starting as RnshSession.__init__ leaves it.
Constructed(objs) ==
    /\ life = [s \in Sess |-> IF s \in objs THEN "free" ELSE "unused"]
    /\ _link = [s \in Sess |-> "none"]
    /\ _channel = [s \in Sess |-> FALSE]
    /\ _closed = [s \in Sess |-> FALSE]
    /\ _connected = [s \in Sess |-> FALSE]
    /\ geom = [s \in Sess |-> <<24, 80>>]
    /\ _output_queue = [s \in Sess |-> <<>>]
    /\ sent = [s \in Sess |-> <<>>]
    /\ delivered = [s \in Sess |-> <<>>]
    /\ returned = [s \in Sess |-> <<>>]
    /\ nmsg = [s \in Sess |-> 0]
    /\ exit_seen = [s \in Sess |-> "no"]
    /\ _sessions = [i \in Ids |-> NoSession]
    /\ _lock = NoThread
    /\ pc = [t \in Threads |-> "idle"]
    /\ op = [t \in Threads |-> "none"]
    /\ cur = [t \in Threads |-> NoSession]
    /\ aid = [t \in Threads |-> NoId]
    /\ snap = [t \in Threads |-> NoSnap]
    /\ ev = NoEvent
    /\ tpc = "idle"
    /\ tcur = NoSession

\* The module globals at import, lines 19-25: no transport, no mode, no
\* gateway, no identity, no announce heard.
Imported ==
    /\ _reticulum = NoReticulum
    /\ _init_mode = "None"
    /\ _gateways = [e \in Endpoints |-> Absent]
    /\ _identity = NoIdentity
    /\ _announce_handler = FALSE
    /\ _announced = <<>>
    /\ attached = [e \in Endpoints |-> 0]
    /\ heard = {}
    /\ iter = NoIter
    /\ ret = NoCall

\* The state at import on a fresh installation: no identity file yet.
Start(objs) == Constructed(objs) /\ Imported /\ disk = NoIdentity

\* ---- helpers ----

\* (mutant) put that adds at the front of the queue
put_front(q, item) == <<item>> \o q

\* queue.Queue.put
put(q, item) == Append(q, item)

\* (mutant) a teardown that leaves the link as it is
teardown_skipped(l) == l

\* Link.teardown(): closes a link that is not closed yet
teardown(l) == IF l \in {"pending", "active"} THEN "torndown" ELSE l

\* Channel.send succeeds only on an active link, and may fail there too
\* (the channel is not ready to send)
SendOutcomes(s) == IF _link[s] = "active" THEN {TRUE, FALSE} ELSE {FALSE}

\* the object the next RnshSession(...) call constructs
Fresh == CHOOSE s \in Sess : life[s] = "free" /\ \A r \in Sess : life[r] = "free" => s <= r
HasFresh == \E s \in Sess : life[s] = "free"

\* a step that returns nothing to a caller
Quiet == ev' = NoEvent

\* the caller's function returns value v (or raises, v = Raised(..))
Return(t, v) ==
    /\ ev' = [t |-> t, f |-> op[t], at |-> pc[t], s |-> cur[t], id |-> aid[t],
              all |-> snap[t].all, v |-> v]
    /\ pc' = [pc EXCEPT ![t] = "idle"]
    /\ op' = [op EXCEPT ![t] = "none"]
    /\ cur' = [cur EXCEPT ![t] = NoSession]
    /\ aid' = [aid EXCEPT ![t] = NoId]
    /\ snap' = [snap EXCEPT ![t] = NoSnap]

\* a caller starts function f
Begin(t, f, at) ==
    /\ pc[t] = "idle"
    /\ pc' = [pc EXCEPT ![t] = at]
    /\ op' = [op EXCEPT ![t] = f]
    /\ Quiet

\* ======================= the transport thread =======================

\* a callback ends by an exception that reaches the transport
Escapes(f, s) ==
    ev' = [NoEvent EXCEPT !.f = f, !.s = s, !.v = Raised("ChannelException")]

\* _on_link_established, line 371: the link is up and the callback starts
\* by setting _connected
on_link_established_connected(s) ==
    /\ tpc = "idle"
    /\ _link[s] = "pending"
    /\ _link' = [_link EXCEPT ![s] = "active"]
    /\ _connected' = [_connected EXCEPT ![s] = TRUE]
    /\ tpc' = "est_channel"
    /\ tcur' = s
    /\ Quiet
    /\ UNCHANGED <<life, _channel, _closed, geom, _output_queue>>
    /\ UNCHANGED <<hvars, rvars, cvars>>
    /\ UNCHANGED gvars

\* lines 372-378: the channel is stored and the message handler registered
on_link_established_channel ==
    /\ tpc = "est_channel"
    /\ _channel' = [_channel EXCEPT ![tcur] = TRUE]
    /\ tpc' = "est_version"
    /\ Quiet
    /\ UNCHANGED <<life, _link, _closed, _connected, geom, _output_queue, tcur>>
    /\ UNCHANGED <<hvars, rvars, cvars>>
    /\ UNCHANGED gvars

\* line 381: channel.send(VersionInfoMessage()); a send that raises ends
\* the callback
on_link_established_version ==
    /\ tpc = "est_version"
    /\ \E ok \in SendOutcomes(tcur) :
        IF ok
        THEN /\ sent' = [sent EXCEPT ![tcur] = Append(@, VersionInfoMessage)]
             /\ tpc' = "est_execute"
             /\ tcur' = tcur
             /\ Quiet
        ELSE /\ sent' = sent
             /\ tpc' = "idle"
             /\ tcur' = NoSession
             /\ Escapes("_on_link_established", tcur)
    /\ UNCHANGED <<svars, delivered, returned, nmsg, exit_seen, rvars, cvars>>
    /\ UNCHANGED gvars

\* lines 387-398: channel.send(ExecuteCommandMesssage(cmdline=[], ...,
\* rows=self._rows, cols=self._cols, hpix=0, vpix=0))
on_link_established_execute ==
    /\ tpc = "est_execute"
    /\ \E ok \in SendOutcomes(tcur) :
        IF ok
        THEN /\ sent' = [sent EXCEPT ![tcur] =
                          Append(@, ExecuteCommandMesssage(<<>>, geom[tcur][1], geom[tcur][2]))]
             /\ Quiet
        ELSE /\ sent' = sent
             /\ Escapes("_on_link_established", tcur)
    /\ tpc' = "idle"
    /\ tcur' = NoSession
    /\ UNCHANGED <<svars, delivered, returned, nmsg, exit_seen, rvars, cvars>>
    /\ UNCHANGED gvars

\* _on_link_closed, lines 400-404.  The transport thread runs it when the
\* remote or the network closes the link; after a local teardown() the
\* link runs it in the thread that tore it down.
_on_link_closed(s) ==
    /\ \/ tpc = "idle" /\ _link[s] \in {"pending", "active"}
       \/ _link[s] = "torndown"
    /\ _link' = [_link EXCEPT ![s] = "closed"]
    /\ IF ~_closed[s]
       THEN /\ _closed' = [_closed EXCEPT ![s] = TRUE]
            /\ _connected' = [_connected EXCEPT ![s] = FALSE]
            /\ _output_queue' = [_output_queue EXCEPT ![s] = put(@, PyNone)]
       ELSE UNCHANGED <<_closed, _connected, _output_queue>>
    /\ Quiet
    /\ UNCHANGED <<life, _channel, geom>>
    /\ UNCHANGED <<hvars, rvars, cvars, tvars>>
    /\ UNCHANGED gvars

\* the payload of the next non-empty stream-data message the remote sends
\* to s: the remote's output is numbered, so that every chunk differs
NextPayload(s) == <<Len(delivered[s]) + 1>>

\* what the remote can send to s on the channel (stream 1 is its stdout)
InboundMessages(s) ==
    {StreamDataMessage(1, d, FALSE, FALSE) : d \in {NoBytes, NextPayload(s)}}
        \cup {CommandExitedMessage} \cup {ErrorMessage(f) : f \in BOOLEAN}

\* (mutant) _on_message that closes the session on any ErrorMessage
on_message_effect_any_error(s, m) ==
    IF m.type = "StreamData"
    THEN IF m.data # NoBytes
         THEN <<_closed[s], Append(_output_queue[s], Bytes(m.data))>>
         ELSE <<_closed[s], _output_queue[s]>>
    ELSE <<TRUE, Append(_output_queue[s], PyNone)>>

\* (mutant) _on_message without the "if message.data" of line 415
on_message_effect_unguarded(s, m) ==
    IF m.type = "StreamData"
    THEN <<_closed[s], Append(_output_queue[s], Bytes(m.data))>>
    ELSE IF m.type = "CommandExited" \/ (m.type = "Error" /\ m.fatal)
    THEN <<TRUE, Append(_output_queue[s], PyNone)>>
    ELSE <<_closed[s], _output_queue[s]>>

\* the effect of _on_message on <<_closed, _output_queue>>, lines 414-423
on_message_effect(s, m) ==
    IF m.type = "StreamData"
    THEN IF m.data # NoBytes
         THEN <<_closed[s], put(_output_queue[s], Bytes(m.data))>>
         ELSE <<_closed[s], _output_queue[s]>>
    ELSE IF m.type = "CommandExited"
    THEN <<TRUE, put(_output_queue[s], PyNone)>>
    ELSE IF m.type = "Error" /\ m.fatal
    THEN <<TRUE, put(_output_queue[s], PyNone)>>
    ELSE <<_closed[s], _output_queue[s]>>

\* _on_message, lines 406-423: the channel dispatches an inbound message
\* to the handler registered at line 378
_on_message(s, m) ==
    /\ tpc = "idle"
    /\ _link[s] = "active"
    /\ _channel[s]
    /\ nmsg[s] < MaxMsgs
    /\ nmsg' = [nmsg EXCEPT ![s] = @ + 1]
    /\ delivered' = [delivered EXCEPT ![s] =
                        IF m.type = "StreamData" /\ m.data # NoBytes
                        THEN Append(@, m.data) ELSE @]
    /\ _closed' = [_closed EXCEPT ![s] = on_message_effect(s, m)[1]]
    /\ _output_queue' = [_output_queue EXCEPT ![s] = on_message_effect(s, m)[2]]
    /\ exit_seen' = [exit_seen EXCEPT ![s] =
                        IF m.type = "CommandExited" /\ @ = "no" THEN "exited" ELSE @]
    /\ Quiet
    /\ UNCHANGED <<life, _link, _channel, _connected, geom>>
    /\ UNCHANGED <<sent, returned, rvars, cvars, tvars>>
    /\ UNCHANGED gvars

\* ========================= caller threads ==========================

\* the RnshSession method a function ends up calling on the session
Method(f) ==
    CASE f \in {"read_output", "s.read_output"} -> "read_output"
      [] f \in {"send_input", "s.send_input"} -> "send_input"
      [] f \in {"resize_session", "s.resize"} -> "resize"
      [] f \in {"is_connected", "s.is_connected"} -> "is_connected"
      [] f \in {"close_session", "close_all", "s.close"} -> "close"
      [] OTHER -> "none"

\* send_input / resize transmissions made on s's channel so far
UserSent(s) ==
    Cardinality({i \in 1..Len(sent[s]) : sent[s][i].type \in {"StreamData", "WindowSize"}})

\* Channel.send for send_input and resize
UserSendOutcomes(s) ==
    IF UserSent(s) < MaxSent THEN SendOutcomes(s) ELSE {FALSE}

\* "with _lock:" is entered
lock_acquire(t) ==
    /\ pc[t] = "lock"
    /\ _lock = NoThread
    /\ _lock' = t
    /\ pc' = [pc EXCEPT ![t] = "locked"]
    /\ Quiet
    /\ UNCHANGED <<svars, hvars, _sessions, op, cur, aid, snap, tvars>>
    /\ UNCHANGED gvars

\* ---- RnshSession(...) constructed by a client that keeps the reference ----
RnshSession_init(t) ==
    /\ pc[t] = "idle"
    /\ HasFresh
    /\ life' = [life EXCEPT ![Fresh] = "new"]
    /\ Quiet
    /\ UNCHANGED <<_link, _channel, _closed, _connected, geom, _output_queue>>
    /\ UNCHANGED <<hvars, rvars, cvars, tvars>>
    /\ UNCHANGED gvars

\* ---- create_session, lines 493-501, with RnshSession.connect inlined ----

\* lines 495-496 and 322-346: the session is constructed and connect()
\* runs up to its wait loop.  An unknown identity raises before anything
\* is stored in the object, which nobody else references: it stays free.
create_session_connect(t, dest, id, g) ==
    /\ pc[t] = "idle"
    /\ HasFresh
    /\ IF dest = "unknown"
       THEN /\ ev' = [NoEvent EXCEPT !.t = t, !.f = "create_session", !.at = "connect",
                                     !.s = Fresh, !.id = id,
                                     !.v = Raised("IdentityUnresolved")]
            /\ UNCHANGED <<svars, cvars>>
       ELSE /\ life' = [life EXCEPT ![Fresh] = "connecting"]
            /\ geom' = [geom EXCEPT ![Fresh] = g]
            /\ _link' = [_link EXCEPT ![Fresh] = "pending"]
            /\ pc' = [pc EXCEPT ![t] = "conn_wait"]
            /\ op' = [op EXCEPT ![t] = "create_session"]
            /\ cur' = [cur EXCEPT ![t] = Fresh]
            /\ aid' = [aid EXCEPT ![t] = id]
            /\ Quiet
            /\ UNCHANGED <<_channel, _closed, _connected, _output_queue, snap>>
    /\ UNCHANGED <<hvars, rvars, tvars>>
    /\ UNCHANGED gvars

\* line 351: while not self._connected and not self._closed
connect_wait(t) ==
    /\ pc[t] = "conn_wait"
    /\ pc' = [pc EXCEPT ![t] =
                IF ~_connected[cur[t]] /\ ~_closed[cur[t]] THEN "conn_sleep" ELSE "lock"]
    /\ Quiet
    /\ UNCHANGED <<svars, hvars, rvars, op, cur, aid, snap, tvars>>
    /\ UNCHANGED gvars

\* lines 352-355: the sleep ends; past the 30 s bound the link is torn
\* down and connect raises
connect_sleep(t) ==
    /\ pc[t] = "conn_sleep"
    /\ \E timed_out \in BOOLEAN :
        IF timed_out
        THEN /\ _link' = [_link EXCEPT ![cur[t]] = teardown(@)]
             /\ life' = [life EXCEPT ![cur[t]] = "failed"]
             /\ Return(t, Raised("LinkTimeout"))
        ELSE /\ pc' = [pc EXCEPT ![t] = "conn_wait"]
             /\ Quiet
             /\ UNCHANGED <<_link, life, op, cur, aid, snap>>
    /\ UNCHANGED <<_channel, _closed, _connected, geom, _output_queue>>
    /\ UNCHANGED <<hvars, rvars, tvars>>
    /\ UNCHANGED gvars

\* the registry after create_session's insert, line 499
insert(id, s) == [_sessions EXCEPT ![id] = s]

\* lines 498-501: with _lock: _sessions[session_id] = session
create_session_insert(t) ==
    /\ pc[t] = "locked"
    /\ op[t] = "create_session"
    /\ _sessions' = insert(aid[t], cur[t])
    /\ _lock' = NoThread
    /\ life' = [life EXCEPT ![cur[t]] = "done"]
    /\ Return(t, PyStr(aid[t]))
    /\ UNCHANGED <<_link, _channel, _closed, _connected, geom, _output_queue>>
    /\ UNCHANGED <<hvars, tvars>>
    /\ UNCHANGED gvars

\* ---- the functions that look a session up ----

\* a function taking a session id is called: it goes for _lock first
call_by_id(t, f, id) ==
    /\ Begin(t, f, "lock")
    /\ aid' = [aid EXCEPT ![t] = id]
    /\ UNCHANGED <<svars, hvars, rvars, cur, snap, tvars>>
    /\ UNCHANGED gvars

\* a client holding a reference to session s calls one of its methods
call_method(t, f, s) ==
    /\ life[s] \in {"new", "done"}
    /\ Begin(t, f, "call")
    /\ cur' = [cur EXCEPT ![t] = s]
    /\ UNCHANGED <<svars, hvars, rvars, aid, snap, tvars>>
    /\ UNCHANGED gvars

\* (mutant) a lookup by _sessions[session_id], which raises for an unknown id
lookup_strict(t, f, neutral) ==
    /\ pc[t] = "locked"
    /\ op[t] = f
    /\ _lock' = NoThread
    /\ IF _sessions[aid[t]] = NoSession
       THEN Return(t, Raised("KeyError"))
       ELSE /\ pc' = [pc EXCEPT ![t] = "call"]
            /\ cur' = [cur EXCEPT ![t] = _sessions[aid[t]]]
            /\ Quiet
            /\ UNCHANGED <<op, aid, snap>>
    /\ UNCHANGED <<svars, hvars, _sessions, tvars>>
    /\ UNCHANGED gvars

\* with _lock: session = _sessions.get(session_id); then the function
\* returns `neutral` for no session, or goes on to the session's method
lookup(t, f, neutral) ==
    /\ pc[t] = "locked"
    /\ op[t] = f
    /\ _lock' = NoThread
    /\ IF _sessions[aid[t]] = NoSession
       THEN Return(t, neutral)
       ELSE /\ pc' = [pc EXCEPT ![t] = "call"]
            /\ cur' = [cur EXCEPT ![t] = _sessions[aid[t]]]
            /\ Quiet
            /\ UNCHANGED <<op, aid, snap>>
    /\ UNCHANGED <<svars, hvars, _sessions, tvars>>
    /\ UNCHANGED gvars

\* read_output (module), lines 506-509
read_output(t) == lookup(t, "read_output", PyNone)

\* send_input (module), lines 515-519
send_input(t) == lookup(t, "send_input", PyFalse)

\* resize_session, lines 524-527
resize_session(t) == lookup(t, "resize_session", PyNone)

\* is_connected (module), lines 532-534
is_connected(t) == lookup(t, "is_connected", PyFalse)

\* ---- RnshSession methods ----

\* read_output returns v to the reader of session s
Reads(s, v) ==
    exit_seen' = [exit_seen EXCEPT ![s] =
                    IF @ = "exited" /\ v = PyNone THEN "reported" ELSE @]

\* a session method called through the registry or directly is about to run
AtMethod(t, m) == pc[t] = "call" /\ Method(op[t]) = m

\* RnshSession.read_output, lines 430-431: closed and nothing buffered
RnshSession_read_output_check(t) ==
    /\ AtMethod(t, "read_output")
    /\ IF _closed[cur[t]] /\ _output_queue[cur[t]] = <<>>
       THEN /\ Return(t, PyNone)
            /\ Reads(cur[t], PyNone)
       ELSE /\ pc' = [pc EXCEPT ![t] = "read_get"]
            /\ Quiet
            /\ UNCHANGED <<op, cur, aid, snap, exit_seen>>
    /\ UNCHANGED <<svars, sent, delivered, returned, nmsg, rvars, tvars>>
    /\ UNCHANGED gvars

\* what queue.get hands to read_output
get(q) == Head(q)

\* lines 433-436: self._output_queue.get(timeout=...) returns the oldest
\* item as soon as there is one, or raises queue.Empty at the timeout
RnshSession_read_output_get(t) ==
    /\ pc[t] = "read_get"
    /\ LET s == cur[t] IN
       IF _output_queue[s] # <<>>
       THEN /\ _output_queue' = [_output_queue EXCEPT ![s] = Tail(@)]
            /\ returned' = [returned EXCEPT ![s] =
                              IF get(_output_queue[s]).k = "bytes"
                              THEN Append(@, get(_output_queue[s]).v) ELSE @]
            /\ Return(t, get(_output_queue[s]))
            /\ Reads(s, get(_output_queue[s]))
       ELSE /\ pc' = [pc EXCEPT ![t] = "read_timeout"]
            /\ Quiet
            /\ UNCHANGED <<_output_queue, returned, op, cur, aid, snap, exit_seen>>
    /\ UNCHANGED <<life, _link, _channel, _closed, _connected, geom>>
    /\ UNCHANGED <<sent, delivered, nmsg, rvars, tvars>>
    /\ UNCHANGED gvars

\* what read_output returns after queue.Empty, lines 437-439
after_timeout(s) == IF _closed[s] THEN PyNone ELSE Bytes(NoBytes)

RnshSession_read_output_timeout(t) ==
    /\ pc[t] = "read_timeout"
    /\ Return(t, after_timeout(cur[t]))
    /\ Reads(cur[t], after_timeout(cur[t]))
    /\ UNCHANGED <<svars, sent, delivered, returned, nmsg, rvars, tvars>>
    /\ UNCHANGED gvars

\* the guard of send_input and resize, lines 443 and 460
refuses(s) == _closed[s] \/ ~_channel[s]

\* (mutant) send_input without its guard and without its try/except
RnshSession_send_input_unguarded(t, data) ==
    /\ AtMethod(t, "send_input")
    /\ LET s == cur[t] IN
       \E ok \in UserSendOutcomes(s) :
             /\ sent' = IF ok
                        THEN [sent EXCEPT ![s] =
                                Append(@, StreamDataMessage(0, data, FALSE, FALSE))]
                        ELSE sent
             /\ Return(t, IF ok THEN PyTrue ELSE Raised("AttributeError"))
    /\ UNCHANGED <<svars, delivered, returned, nmsg, exit_seen, rvars, tvars>>
    /\ UNCHANGED gvars

\* RnshSession.send_input, lines 441-456
RnshSession_send_input(t, data) ==
    /\ AtMethod(t, "send_input")
    /\ LET s == cur[t] IN
       IF refuses(s)
       THEN /\ Return(t, PyFalse)
            /\ sent' = sent
       ELSE \E ok \in UserSendOutcomes(s) :
             /\ sent' = IF ok
                        THEN [sent EXCEPT ![s] =
                                Append(@, StreamDataMessage(0, data, FALSE, FALSE))]
                        ELSE sent
             /\ Return(t, IF ok THEN PyTrue ELSE PyFalse)
    /\ UNCHANGED <<svars, delivered, returned, nmsg, exit_seen, rvars, tvars>>
    /\ UNCHANGED gvars

\* RnshSession.resize, lines 458-468
RnshSession_resize(t, cols, rows) ==
    /\ AtMethod(t, "resize")
    /\ LET s == cur[t] IN
       IF refuses(s)
       THEN sent' = sent
       ELSE \E ok \in UserSendOutcomes(s) :
             sent' = IF ok
                     THEN [sent EXCEPT ![s] = Append(@, WindowSizeMessage(rows, cols))]
                     ELSE sent
    /\ Return(t, PyNone)
    /\ UNCHANGED <<svars, delivered, returned, nmsg, exit_seen, rvars, tvars>>
    /\ UNCHANGED gvars

\* RnshSession.is_connected, lines 482-484, read by is_connected (module)
\* or by a client
RnshSession_is_connected(t) ==
    /\ AtMethod(t, "is_connected")
    /\ Return(t, IF _connected[cur[t]] /\ ~_closed[cur[t]] THEN PyTrue ELSE PyFalse)
    /\ UNCHANGED <<svars, hvars, rvars, tvars>>
    /\ UNCHANGED gvars

\* session.close() has returned: close_all goes on with its loop, the
\* others return
close_returns(t) ==
    IF op[t] = "close_all"
    THEN /\ pc' = [pc EXCEPT ![t] = "close_all_loop"]
         /\ cur' = [cur EXCEPT ![t] = NoSession]
         /\ Quiet
         /\ UNCHANGED <<op, aid, snap>>
    ELSE Return(t, PyNone)

\* (mutant) close() that only tears the link down and leaves the flags and
\* the sentinel to _on_link_closed
RnshSession_close_lazy(t) ==
    /\ AtMethod(t, "close")
    /\ pc' = [pc EXCEPT ![t] = "close_teardown"]
    /\ Quiet
    /\ UNCHANGED <<svars, hvars, rvars, op, cur, aid, snap, tvars>>
    /\ UNCHANGED gvars

\* (mutant) close() on a queue that all sessions share, as a class attribute
\* would be: the sentinel reaches every session's reader
RnshSession_close_shared(t) ==
    /\ AtMethod(t, "close")
    /\ LET s == cur[t] IN
       IF _closed[s]
       THEN /\ close_returns(t)
            /\ UNCHANGED <<_closed, _connected, _output_queue>>
       ELSE /\ _closed' = [_closed EXCEPT ![s] = TRUE]
            /\ _connected' = [_connected EXCEPT ![s] = FALSE]
            /\ _output_queue' = [r \in Sess |-> put(_output_queue[r], PyNone)]
            /\ pc' = [pc EXCEPT ![t] = "close_teardown"]
            /\ Quiet
            /\ UNCHANGED <<op, cur, aid, snap>>
    /\ UNCHANGED <<life, _link, _channel, geom>>
    /\ UNCHANGED <<hvars, rvars, tvars>>
    /\ UNCHANGED gvars

\* RnshSession.close, lines 471-475
RnshSession_close(t) ==
    /\ AtMethod(t, "close")
    /\ LET s == cur[t] IN
       IF _closed[s]
       THEN /\ close_returns(t)
            /\ UNCHANGED <<_closed, _connected, _output_queue>>
       ELSE /\ _closed' = [_closed EXCEPT ![s] = TRUE]
            /\ _connected' = [_connected EXCEPT ![s] = FALSE]
            /\ _output_queue' = [_output_queue EXCEPT ![s] = put(@, PyNone)]
            /\ pc' = [pc EXCEPT ![t] = "close_teardown"]
            /\ Quiet
            /\ UNCHANGED <<op, cur, aid, snap>>
    /\ UNCHANGED <<life, _link, _channel, geom>>
    /\ UNCHANGED <<hvars, rvars, tvars>>
    /\ UNCHANGED gvars

\* lines 476-480: if self._link: self._link.teardown()
RnshSession_close_teardown(t) ==
    /\ pc[t] = "close_teardown"
    /\ _link' = [_link EXCEPT ![cur[t]] = teardown(@)]
    /\ close_returns(t)
    /\ UNCHANGED <<life, _channel, _closed, _connected, geom, _output_queue>>
    /\ UNCHANGED <<hvars, rvars, tvars>>
    /\ UNCHANGED gvars

\* ---- close_session, lines 537-542 ----

\* the registry after _sessions.pop(session_id, None)
pop(id) == [_sessions EXCEPT ![id] = NoSession]

close_session(t) ==
    /\ pc[t] = "locked"
    /\ op[t] = "close_session"
    /\ _sessions' = pop(aid[t])
    /\ _lock' = NoThread
    /\ IF _sessions[aid[t]] = NoSession
       THEN Return(t, PyNone)
       ELSE /\ pc' = [pc EXCEPT ![t] = "call"]
            /\ cur' = [cur EXCEPT ![t] = _sessions[aid[t]]]
            /\ Quiet
            /\ UNCHANGED <<op, aid, snap>>
    /\ UNCHANGED <<svars, hvars, tvars>>
    /\ UNCHANGED gvars

\* ---- close_all, lines 545-555 ----

close_all_begin(t) ==
    /\ Begin(t, "close_all", "lock")
    /\ UNCHANGED <<svars, hvars, rvars, cur, aid, snap, tvars>>
    /\ UNCHANGED gvars

\* list(_sessions.values())
values == {_sessions[i] : i \in Ids} \ {NoSession}

\* line 548: sessions = list(_sessions.values())
close_all_snapshot(t) ==
    /\ pc[t] = "locked"
    /\ op[t] = "close_all"
    /\ snap' = [snap EXCEPT ![t] = [all |-> values, todo |-> values]]
    /\ pc' = [pc EXCEPT ![t] = "close_all_clear"]
    /\ Quiet
    /\ UNCHANGED <<svars, hvars, rvars, op, cur, aid, tvars>>
    /\ UNCHANGED gvars

\* (mutant) close_all that forgets to clear the registry
clear_forgotten == _sessions

\* the registry after _sessions.clear()
clear == [i \in Ids |-> NoSession]

\* line 549: _sessions.clear(), and the lock is released
close_all_clear(t) ==
    /\ pc[t] = "close_all_clear"
    /\ _sessions' = clear
    /\ _lock' = NoThread
    /\ pc' = [pc EXCEPT ![t] = "close_all_loop"]
    /\ Quiet
    /\ UNCHANGED <<svars, hvars, op, cur, aid, snap, tvars>>
    /\ UNCHANGED gvars

\* lines 551-555: for session in sessions: session.close()
close_all_loop(t) ==
    /\ pc[t] = "close_all_loop"
    /\ IF snap[t].todo = {}
       THEN Return(t, PyNone)
       ELSE \E s \in snap[t].todo :
             /\ snap' = [snap EXCEPT ![t].todo = @ \ {s}]
             /\ cur' = [cur EXCEPT ![t] = s]
             /\ pc' = [pc EXCEPT ![t] = "call"]
             /\ Quiet
             /\ UNCHANGED <<op, aid>>
    /\ UNCHANGED <<svars, hvars, rvars, tvars>>
    /\ UNCHANGED gvars

\* ================= bootstrap of the transport =================

\* _is_sideband_target, lines 36-38
_is_sideband_target(host, port) ==
    host \in {"127.0.0.1", "localhost", "::1"} /\ port = SidebandPort

Bool(b) == IF b THEN PyTrue ELSE PyFalse

\* what init_reticulum and probe_sideband can give their caller
BootResults ==
    {PyStr(i) : i \in Identities} \cup {PyTrue, PyFalse}
        \cup {Raised("OSError"), Raised("AttributeError")}

\* (mutant) the mode follows the endpoint of the latest call
mode_after_latest(sideband_mode) == IF sideband_mode THEN "sideband" ELSE "gateway"

\* _init_mode after init_reticulum: assigned at lines 101 and 117, only in
\* the branch of a first init
mode_after(sideband_mode) ==
    IF _reticulum # NoReticulum THEN _init_mode
    ELSE IF sideband_mode THEN "sideband" ELSE "gateway"

\* (mutant) _ensure_gateway without the membership test of line 172
_ensure_gateway_again(gateway) ==
    <<[_gateways EXCEPT ![gateway] = "TCPClientInterface"],
      [attached EXCEPT ![gateway] = @ + 1]>>

\* _ensure_gateway, lines 168-190, when the interface can be built: the
\* <<_gateways, attached>> it leaves
_ensure_gateway(gateway) ==
    IF _gateways[gateway] # Absent
    THEN <<_gateways, attached>>
    ELSE <<[_gateways EXCEPT ![gateway] = "TCPClientInterface"],
           [attached EXCEPT ![gateway] = @ + 1]>>

\* lines 155-163: the identity is read from haven_identity, or made and
\* stored.  Identity.from_file gives None for a file it cannot read, and
\* line 163 then raises.
load_identity(v) ==
    IF disk # NoIdentity
    THEN \E readable \in BOOLEAN :
            /\ _identity' = IF readable THEN disk ELSE NoIdentity
            /\ disk' = disk
            /\ v = IF readable THEN PyStr(disk) ELSE Raised("AttributeError")
    ELSE /\ _identity' = "generated"
         /\ disk' = "generated"
         /\ v = PyStr("generated")

\* lines 76-78, then the fall through to line 155
return_identity(v) ==
    IF _identity # NoIdentity
    THEN v = PyStr(_identity) /\ UNCHANGED <<_identity, disk>>
    ELSE load_identity(v)

\* init_reticulum, lines 41-165, returning or raising v
init_reticulum_body(host, port, v) ==
    LET sideband_mode == _is_sideband_target(host, port)
        gateway == <<host, port>>
    IN
    /\ _init_mode' = mode_after(sideband_mode)
    /\ IF _reticulum # NoReticulum
       THEN /\ UNCHANGED <<_reticulum, _announce_handler>>
            /\ IF ~sideband_mode
               THEN \E built \in BOOLEAN :
                      IF built \/ _gateways[gateway] # Absent
                      THEN /\ _gateways' = _ensure_gateway(gateway)[1]
                           /\ attached' = _ensure_gateway(gateway)[2]
                           /\ return_identity(v)
                      ELSE /\ v = Raised("OSError")
                           /\ UNCHANGED <<_gateways, attached, _identity, disk>>
               ELSE /\ UNCHANGED <<_gateways, attached>>
                    /\ return_identity(v)
       ELSE \E started \in BOOLEAN :
            \E shared \in IF sideband_mode THEN BOOLEAN ELSE {FALSE} :
              IF started
              THEN /\ _reticulum' = [n |-> _reticulum.n + 1,
                                     is_connected_to_shared_instance |-> shared]
                   /\ _gateways' = IF sideband_mode THEN _gateways
                                   ELSE [_gateways EXCEPT ![gateway] = "None"]
                   /\ attached' = IF sideband_mode THEN attached
                                  ELSE [attached EXCEPT ![gateway] = @ + 1]
                   /\ _announce_handler' = TRUE
                   /\ load_identity(v)
              ELSE /\ v = Raised("OSError")
                   /\ UNCHANGED <<_reticulum, _gateways, attached, _announce_handler,
                                  _identity, disk>>

init_reticulum(host, port) ==
    /\ iter.pc = "idle"
    /\ \E v \in BootResults :
        /\ init_reticulum_body(host, port, v)
        /\ ret' = [f |-> "init_reticulum", host |-> host, port |-> port, v |-> v]
    /\ UNCHANGED <<_announced, heard, iter>>
    /\ UNCHANGED sessvars

\* probe_sideband, lines 242-268
probe_sideband(host, port) ==
    /\ iter.pc = "idle"
    /\ \E v \in BootResults :
        /\ ret' = [f |-> "probe_sideband", host |-> host, port |-> port, v |-> v]
        /\ IF _reticulum # NoReticulum
           THEN /\ v = Bool(_init_mode = "sideband"
                              /\ _reticulum.is_connected_to_shared_instance)
                /\ UNCHANGED <<_reticulum, _init_mode, _gateways, _identity,
                               _announce_handler, disk, attached>>
           ELSE \E listening \in BOOLEAN :
                  IF listening
                  THEN \E w \in BootResults :
                        /\ init_reticulum_body(host, port, w)
                        /\ v = IF w.k = "raise" THEN w
                               ELSE Bool(/\ _reticulum' # NoReticulum
                                         /\ _reticulum'.is_connected_to_shared_instance)
                  ELSE /\ v = PyFalse
                       /\ UNCHANGED <<_reticulum, _init_mode, _gateways, _identity,
                                      _announce_handler, disk, attached>>
    /\ UNCHANGED <<_announced, heard, iter>>
    /\ UNCHANGED sessvars

\* ================= announces and discovery =================

\* the keys of the dict, and the position of a key in it (0: not a key)
keys(d) == {d[i].hash : i \in 1..Len(d)}
position(d, hash) ==
    IF hash \in keys(d) THEN CHOOSE i \in 1..Len(d) : d[i].hash = hash ELSE 0

\* (mutant) a store that keeps the entry a key already has
store_if_absent(d, hash, hops) ==
    IF hash \in keys(d) THEN d ELSE Append(d, [hash |-> hash, hops |-> hops])

\* _announced[dest_hex] = {"hops": hops, ...}, lines 205-208: a key already
\* in the dict keeps its place, a new key goes last
store(d, hash, hops) ==
    IF hash \in keys(d)
    THEN [d EXCEPT ![position(d, hash)] = [hash |-> hash, hops |-> hops]]
    ELSE Append(d, [hash |-> hash, hops |-> hops])

\* received_announce, lines 198-209, on the transport thread.  in_table
\* and table_hops are the path table's entry for the destination; the
\* timestamp is stored but never read.
received_announce(destination_hash, in_table, table_hops) ==
    LET hops == IF in_table THEN table_hops ELSE UnknownHops IN
    /\ _announce_handler
    /\ _announced' = store(_announced, destination_hash, hops)
    /\ heard' = {r \in heard : r.hash # destination_hash}
                    \cup {[hash |-> destination_hash, hops |-> hops]}
    /\ iter' = IF iter.pc = "idle" THEN iter
               ELSE [iter EXCEPT !.seen = @ \cup {_announced'}]
    /\ ret' = [NoCall EXCEPT !.f = "received_announce"]
    /\ UNCHANGED <<_reticulum, _init_mode, _gateways, _identity, _announce_handler,
                   disk, attached>>
    /\ UNCHANGED sessvars

\* (mutant) the sort key without the "else 999"
sort_key_raw(d) == d.hops

\* the sort key of line 226
sort_key(d) == IF d.hops >= 0 THEN d.hops ELSE UnknownKey

\* list.sort(key=...) is stable: an entry goes behind the entries whose key
\* is not larger
insort(sorted, d) ==
    LET k == Cardinality({i \in 1..Len(sorted) : sort_key(sorted[i]) <= sort_key(d)})
    IN SubSeq(sorted, 1, k) \o <<d>> \o SubSeq(sorted, k + 1, Len(sorted))

RECURSIVE sort(_)
sort(results) ==
    IF results = <<>> THEN <<>>
    ELSE insort(sort(SubSeq(results, 1, Len(results) - 1)), results[Len(results)])

\* get_discovered_destinations, lines 218-219: the for loop starts, its
\* iterator remembers the size of the dict
get_discovered_destinations_for ==
    /\ iter.pc = "idle"
    /\ iter' = [pc |-> "for", used |-> Len(_announced), pos |-> 0,
                results |-> <<>>, seen |-> {_announced}]
    /\ ret' = NoCall
    /\ UNCHANGED <<_reticulum, _init_mode, _gateways, _identity, _announce_handler,
                   _announced, disk, attached, heard>>
    /\ UNCHANGED sessvars

\* lines 219-227: the iterator's next().  It raises RuntimeError when the
\* dict has changed size since the loop began; otherwise the loop body
\* appends the next item, or the loop ends and the sorted list is returned.
get_discovered_destinations_next ==
    /\ iter.pc = "for"
    /\ IF Len(_announced) # iter.used
       THEN /\ iter' = NoIter
            /\ ret' = [NoCall EXCEPT !.f = "get_discovered_destinations",
                                     !.v = Raised("RuntimeError")]
       ELSE IF iter.pos < Len(_announced)
       THEN /\ iter' = [iter EXCEPT !.pos = @ + 1,
                                    !.results = Append(@, _announced[iter.pos + 1])]
            /\ ret' = NoCall
       ELSE /\ iter' = NoIter
            /\ ret' = [NoCall EXCEPT !.f = "get_discovered_destinations",
                                     !.v = Json(sort(iter.results))]
    /\ UNCHANGED <<_reticulum, _init_mode, _gateways, _identity, _announce_handler,
                   _announced, disk, attached, heard>>
    /\ UNCHANGED sessvars

\* ===================== the specifications =====================

Transport ==
    \/ \E s \in Sess : on_link_established_connected(s)
    \/ on_link_established_channel
    \/ on_link_established_version
    \/ on_link_established_execute
    \/ \E s \in Sess : _on_link_closed(s)
    \/ \E s \in Sess : \E m \in InboundMessages(s) : _on_message(s, m)

\* the steps of create_session after its call
Creating(t) ==
    \/ connect_wait(t)
    \/ connect_sleep(t)
    \/ create_session_insert(t)

\* the steps of read_output, module function and method
Reading(t) ==
    \/ read_output(t)
    \/ RnshSession_read_output_check(t)
    \/ RnshSession_read_output_get(t)
    \/ RnshSession_read_output_timeout(t)

\* the steps of close_session and RnshSession.close
Closing(t) ==
    \/ close_session(t)
    \/ RnshSession_close(t)
    \/ RnshSession_close_teardown(t)

\* ---- one session: the UI thread connects, writes and closes it, the
\* ---- reader thread reads it, and the transport delivers
SessionNext ==
    \/ Transport
    \/ \E t \in Threads : lock_acquire(t)
    \/ RnshSession_init("ui")
    \/ \E dest \in Dests : create_session_connect("ui", dest, "A", <<24, 80>>)
    \/ Creating("ui")
    \/ \E f \in {"send_input", "close_session"} : call_by_id("ui", f, "A")
    \/ \E s \in Sess : call_method("ui", "s.close", s)
    \/ send_input("ui")
    \/ \E data \in Inputs : RnshSession_send_input("ui", data)
    \/ Closing("ui")
    \/ call_by_id("reader", "read_output", "A")
    \/ \E s \in Sess : call_method("reader", "s.read_output", s)
    \/ Reading("reader")

Init == Start({1})

Spec == Init /\ [][SessionNext]_vars

\* ---- the reader's poll loop: the reader thread keeps calling
\* ---- read_output on the session it holds; a close() that was called runs
\* ---- to its end
PollNext ==
    \/ Transport
    \/ lock_acquire("ui")
    \/ RnshSession_init("ui")
    \/ create_session_connect("ui", "known", "A", <<24, 80>>)
    \/ Creating("ui")
    \/ call_by_id("ui", "close_session", "A")
    \/ \E s \in Sess : call_method("ui", "s.close", s)
    \/ Closing("ui")
    \/ \E s \in Sess : call_method("reader", "s.read_output", s)
    \/ RnshSession_read_output_check("reader")
    \/ RnshSession_read_output_get("reader")
    \/ RnshSession_read_output_timeout("reader")

ReaderPolls ==
    \/ \E s \in Sess : call_method("reader", "s.read_output", s)
    \/ RnshSession_read_output_check("reader")
    \/ RnshSession_read_output_get("reader")
    \/ RnshSession_read_output_timeout("reader")

PollSpec ==
    /\ Init
    /\ [][PollNext]_vars
    /\ WF_vars(ReaderPolls)
    /\ WF_vars(Closing("ui"))

\* ---- the handshake: the UI thread creates sessions, writes to them,
\* ---- resizes and closes them while the transport runs its callbacks
HandshakeNext ==
    \/ \E s \in Sess : on_link_established_connected(s)
    \/ on_link_established_channel
    \/ on_link_established_version
    \/ on_link_established_execute
    \/ \E s \in Sess : _on_link_closed(s)
    \/ lock_acquire("ui")
    \/ RnshSession_init("ui")
    \/ \E dest \in Dests, g \in Geoms : create_session_connect("ui", dest, "A", g)
    \/ Creating("ui")
    \/ \E f \in {"send_input", "resize_session"} : call_by_id("ui", f, "A")
    \/ \E s \in Sess, f \in {"s.send_input", "s.resize", "s.close"} : call_method("ui", f, s)
    \/ send_input("ui")
    \/ resize_session("ui")
    \/ \E data \in Inputs : RnshSession_send_input("ui", data)
    \/ RnshSession_resize("ui", Resized[2], Resized[1])
    \/ RnshSession_close("ui")
    \/ RnshSession_close_teardown("ui")

HandshakeSpec == Start(Sess) /\ [][HandshakeNext]_vars

\* ---- the registry: two threads create, look up, remove and close
\* ---- sessions through the module functions; the UI thread also calls
\* ---- close_all
ClosingAll(t) ==
    \/ close_all_begin(t)
    \/ close_all_snapshot(t)
    \/ close_all_clear(t)
    \/ close_all_loop(t)

RegistryNext ==
    \/ \E s \in Sess : on_link_established_connected(s)
    \/ on_link_established_channel
    \/ on_link_established_version
    \/ on_link_established_execute
    \/ \E s \in Sess : _on_link_closed(s)
    \/ \E t \in Threads : lock_acquire(t)
    \/ create_session_connect("ui", "known", "A", <<24, 80>>)
    \/ create_session_connect("reader", "known", "B", <<24, 80>>)
    \/ \E t \in Threads : Creating(t)
    \/ \E f \in {"read_output", "send_input", "close_session"} :
          call_by_id("reader", f, "A")
    \/ send_input("reader")
    \/ \E data \in Inputs : RnshSession_send_input("reader", data)
    \/ Reading("reader")
    \/ \E t \in Threads : Closing(t)
    \/ ClosingAll("ui")

RegistrySpec == Start(Sess) /\ [][RegistryNext]_vars

\* ---- lookups: one session comes and goes under id "A" while both
\* ---- threads call every function that takes a session id
LookupNext ==
    \/ \E s \in Sess : on_link_established_connected(s)
    \/ on_link_established_channel
    \/ on_link_established_version
    \/ on_link_established_execute
    \/ \E s \in Sess : _on_link_closed(s)
    \/ \E t \in Threads : lock_acquire(t)
    \/ create_session_connect("ui", "known", "A", <<24, 80>>)
    \/ Creating("ui")
    \/ \E f \in {"send_input", "resize_session", "close_session"} :
          call_by_id("ui", f, "A")
    \/ \E id \in Ids, f \in {"read_output", "is_connected", "close_session"} :
          call_by_id("reader", f, id)
    \/ send_input("ui")
    \/ resize_session("ui")
    \/ \E data \in Inputs : RnshSession_send_input("ui", data)
    \/ RnshSession_resize("ui", Resized[2], Resized[1])
    \/ Reading("reader")
    \/ is_connected("reader")
    \/ RnshSession_is_connected("reader")
    \/ \E t \in Threads : Closing(t)

LookupSpec == Init /\ [][LookupNext]_vars

\* ---- two sessions: the UI thread creates "A" and "B", then reads and
\* ---- closes "A" while the reader thread reads "B" and the remote sends
\* ---- output to "B"
OutputTo(id) ==
    \E s \in Sess :
        /\ s = _sessions[id]
        /\ _on_message(s, StreamDataMessage(1, NextPayload(s), FALSE, FALSE))

IsolationNext ==
    \/ \E s \in Sess : on_link_established_connected(s)
    \/ on_link_established_channel
    \/ on_link_established_version
    \/ on_link_established_execute
    \/ \E s \in Sess : _on_link_closed(s)
    \/ OutputTo("B")
    \/ \E t \in Threads : lock_acquire(t)
    \/ \E id \in Ids : create_session_connect("ui", "known", id, <<24, 80>>)
    \/ Creating("ui")
    \/ \E f \in {"read_output", "close_session"} : call_by_id("ui", f, "A")
    \/ call_by_id("reader", "read_output", "B")
    \/ \E t \in Threads : Reading(t)
    \/ Closing("ui")

IsolationSpec == Start(Sess) /\ [][IsolationNext]_vars

\* ---- bootstrap: the host UI probes and bootstraps, one call after
\* ---- another, with any endpoint; the identity file may be left from a
\* ---- previous run
BootNext ==
    \/ \E host \in Hosts, port \in Ports : init_reticulum(host, port)
    \/ \E host \in Hosts, port \in Ports : probe_sideband(host, port)

BootInit == Constructed({}) /\ Imported /\ disk \in {NoIdentity, "stored"}

BootSpec == BootInit /\ [][BootNext]_vars

\* ---- discovery, one thing at a time: after a bootstrap, announces
\* ---- arrive and the host UI lists what was heard, never both at once
AnnouncedBetweenCalls ==
    \E h \in Announcers, in_table \in BOOLEAN, hops \in HopCounts :
        iter.pc = "idle" /\ received_announce(h, in_table, hops)

AnnounceNext ==
    \/ init_reticulum("127.0.0.1", SidebandPort)
    \/ AnnouncedBetweenCalls
    \/ get_discovered_destinations_for
    \/ get_discovered_destinations_next

AnnounceSpec == Start({}) /\ [][AnnounceNext]_vars

\* ---- discovery while announces arrive: the transport thread runs the
\* ---- handler between the steps of the caller's loop
Overlapping == iter.pc = "idle" \/ Cardinality(iter.seen) <= MaxOverlap

AnnouncedAnyTime ==
    \E h \in Announcers, in_table \in BOOLEAN, hops \in HopCounts :
        Overlapping /\ received_announce(h, in_table, hops)

SnapshotNext ==
    \/ init_reticulum("127.0.0.1", SidebandPort)
    \/ AnnouncedAnyTime
    \/ get_discovered_destinations_for
    \/ get_discovered_destinations_next

SnapshotSpec == Start({}) /\ [][SnapshotNext]_vars

\* ========================= the claims =========================

\* the last step was RnshSession.read_output returning from session e.s
ReadReturned == Method(ev.f) = "read_output" /\ ev.s # NoSession

IsPrefix(a, b) == Len(a) <= Len(b) /\ \A i \in 1..Len(a) : a[i] = b[i]

\* C1: RnshSession.read_output returns a data chunk (bytes, never b""),
\* b"" ("empty") or None ("disconnected"); None only with _closed set, and
\* b"" only from the queue.Empty path with the session still open.
C1_ReadOutputThreeWay ==
    ReadReturned =>
        /\ ev.v.k \in {"bytes", "None"}
        /\ ev.v = PyNone => _closed[ev.s]
        /\ ev.v = Bytes(NoBytes) => ev.at = "read_timeout" /\ ~_closed[ev.s]
        /\ ev.at = "read_get" /\ ev.v.k = "bytes" => ev.v.v # NoBytes

\* C1's case: "empty" returned by a session that had already returned data
C1_Witness ==
    /\ ReadReturned
    /\ ev.v = Bytes(NoBytes)
    /\ returned[ev.s] # <<>>
    /\ nmsg[ev.s] = MaxMsgs

\* C2: once command-exited was dispatched to a session, read_output never
\* returns "empty", and after the first read_output that returned None
\* every read_output returns None.
C2_DisconnectedForGood ==
    ReadReturned =>
        /\ exit_seen[ev.s] # "no" => ev.v # Bytes(NoBytes)
        /\ exit_seen[ev.s] = "reported" => ev.v = PyNone

\* C5: the chunks read_output returned are a prefix of the non-empty
\* stream-data payloads the channel dispatched, in dispatch order.
C5_OutputIsRemotePrefix ==
    \A s \in Sess : IsPrefix(returned[s], delivered[s])

\* C5's case: two chunks were read from a session that send_input wrote to
C5_Witness ==
    \E s \in Sess : Len(returned[s]) >= 2 /\ UserSent(s) > 0

\* close() is called on session s
CloseInvoked(s) == \E t \in Threads : AtMethod(t, "close") /\ cur[t] = s

\* C3: after close() is called on a session, every read_output call on it
\* returns, and read_output eventually returns None.
C3_CloseReachesReader ==
    /\ \A s \in Sess : CloseInvoked(s) ~> (ReadReturned /\ ev.s = s /\ ev.v = PyNone)
    /\ (pc["reader"] # "idle") ~> (pc["reader"] = "idle")

\* C3's case: close() is called while the reader is blocked in queue.get
\* on a session that has received nothing
C3_Witness ==
    /\ pc["reader"] = "read_get"
    /\ CloseInvoked(cur["reader"])
    /\ nmsg[cur["reader"]] = 0
    /\ _output_queue[cur["reader"]] = <<>>

\* ---- C4 (HandshakeSpec) ----
\* what the session transmits when the handshake runs to its end
Handshake(s) ==
    <<VersionInfoMessage, ExecuteCommandMesssage(NoBytes, geom[s][1], geom[s][2])>>

\* C4: on every session's channel the transmitted messages start with
\* version-info, then one execute-command carrying the session's (rows, cols)
\* and an empty command line; no window-size and no stdin stream-data message
\* is transmitted before that execute-command, whatever the interleaving of
\* the link-established callback with connect() returning and the caller's
\* resize / send_input calls.
C4_HandshakeFirst ==
    \A s \in Sess :
        /\ IsPrefix(sent[s], Handshake(s)) \/ IsPrefix(Handshake(s), sent[s])
        /\ \A i \in 1..Len(sent[s]) :
              sent[s][i].type = "ExecuteCommand" => i = 2

\* ---- C6 (HandshakeSpec) ----
\* thread t returns from send_input or resize in this step
WriteReturns(t) ==
    /\ pc[t] = "call"
    /\ Method(op[t]) \in {"send_input", "resize"}
    /\ pc'[t] = "idle"

\* C6: send_input / resize on a session that is closed or has no channel
\* return False / None in one step, raise nothing, transmit nothing and leave
\* the session's flags and output queue alone; a send the channel fails is
\* answered with False and never with an exception.
C6_ClosedWritesAreNoOps ==
    [][\A t \in Threads :
         WriteReturns(t) =>
            /\ ev'.v.k # "raise"
            /\ Method(op[t]) = "send_input" =>
                  ev'.v = IF sent' # sent THEN PyTrue ELSE PyFalse
            /\ Method(op[t]) = "resize" => ev'.v = PyNone
            /\ refuses(cur[t]) =>
                  /\ sent' = sent
                  /\ svars' = svars
                  /\ _sessions' = _sessions]_vars

\* a write on a never-connected session, and a write on a closed session
\* that had a channel, were both answered
C6_Witness ==
    /\ Method(ev.f) = "send_input"
    /\ ev.s # NoSession
    /\ ev.v = PyFalse
    /\ _closed[ev.s]
    /\ _channel[ev.s]
    /\ \E r \in Sess : life[r] = "new" /\ ~_channel[r]

\* ---- C8 (HandshakeSpec) ----
CreateFailed == ev.f = "create_session" /\ ev.v.k = "raise"

\* what a failed create_session leaves behind
CreateLeftNothing ==
    /\ \A id \in Ids : _sessions[id] # ev.s
    /\ _link[ev.s] \notin {"pending", "active"}
    /\ ev.v \in {Raised("IdentityUnresolved"), Raised("LinkTimeout")}
    /\ ev.v = Raised("IdentityUnresolved") =>
          ev.at = "connect" /\ _link[ev.s] = "none" /\ life[ev.s] = "free"
    /\ ev.v = Raised("LinkTimeout") =>
          ev.at = "conn_sleep" /\ _link[ev.s] \in {"torndown", "closed"}

\* C8: the step in which create_session raises changes no entry of the
\* table, and the session it was building is not in the table and has no
\* live link: an unresolved identity raises before any link is built, and a
\* timeout raises after the link was torn down.
C8_FailedCreateLeavesNothing ==
    [][CreateFailed' => (_sessions' = _sessions /\ CreateLeftNothing')]_vars

\* a create timed out while another session was registered
C8_Witness ==
    /\ CreateFailed
    /\ ev.v = Raised("LinkTimeout")
    /\ _link[ev.s] = "torndown"
    /\ \E id \in Ids : _sessions[id] \notin {NoSession, ev.s}

\* ---- C7 (LookupSpec) ----
ByIdFunctions == {"read_output", "send_input", "resize_session", "is_connected", "close_session"}

\* what each function answers for a session id it does not find
Neutral(f) == IF f \in {"send_input", "is_connected"} THEN PyFalse ELSE PyNone

\* thread t, holding _lock, finds no session under its id and moves on
MissesSession(t) ==
    /\ pc[t] = "locked"
    /\ op[t] \in ByIdFunctions
    /\ _sessions[aid[t]] = NoSession
    /\ pc'[t] # "locked"

\* C7: for a session id that is not in the table, read_output returns None
\* (disconnected), send_input and is_connected return False, resize_session
\* and close_session return None; none raises, and the step changes neither
\* the table nor any session nor what was transmitted.
C7_UnknownIdIsNeutral ==
    [][\A t \in Threads :
         MissesSession(t) =>
            /\ pc'[t] = "idle"
            /\ ev'.t = t /\ ev'.f = op[t]
            /\ ev'.v = Neutral(op[t])
            /\ _sessions' = _sessions
            /\ svars' = svars
            /\ sent' = sent
            /\ _lock' = NoThread]_vars

\* close_session was answered for an id whose session had been removed
C7_Witness ==
    /\ ev.f = "close_session"
    /\ ev.at = "locked"
    /\ ev.id = "A"
    /\ ev.v = PyNone
    /\ \E s \in Sess : life[s] = "done" /\ s \notin values

\* ---- C9 (RegistrySpec) ----
\* every change of the table is the one operation of the thread holding
\* _lock, on that operation's id alone
TableStep ==
    _sessions' # _sessions =>
        \E t \in Threads :
            /\ _lock = t
            /\ \/ op[t] = "create_session" /\ _sessions' = [_sessions EXCEPT ![aid[t]] = cur[t]]
               \/ op[t] = "close_session" /\ _sessions' = [_sessions EXCEPT ![aid[t]] = NoSession]
               \/ op[t] = "close_all" /\ _sessions' = [i \in Ids |-> NoSession]

\* thread t takes a step of a session method it reached through a lookup
UsesSession(t) ==
    /\ op[t] \in {"read_output", "send_input"}
    /\ pc[t] \notin {"idle", "lock", "locked"}
    /\ pc'[t] # pc[t] \/ ev'.t = t

\* C9: create, lookup and remove take effect one at a time under _lock, each
\* on its own id (no insert is lost), and no thread runs a method of a
\* session that is no longer in the table.
C9_TableLinearizable ==
    [][/\ TableStep
       /\ \A t \in Threads : UsesSession(t) => cur[t] \in values]_vars

\* ---- C10 (RegistrySpec) ----
\* C10: close_all takes its snapshot and clears the table while it holds
\* _lock, and closes the snapshotted sessions without it; _lock is only ever
\* held by a thread at a step that cannot block, so nothing waits for it
\* forever; and when close_all returns, every session of its snapshot is
\* closed and not in the table.
C10_CloseAllOutsideLock ==
    /\ \A t \in Threads :
          /\ _lock = t <=> pc[t] \in {"locked", "close_all_clear"}
          /\ pc[t] = "close_all_clear" => snap[t].all = values
          /\ op[t] = "close_all" /\ pc[t] \in {"close_all_loop", "call", "close_teardown"} =>
                /\ snap[t].all \cap values = {}
                /\ \A s \in snap[t].all \ snap[t].todo : s # cur[t] => _closed[s]
    /\ (ev.f = "close_all" /\ ev.v = PyNone) =>
          \A s \in ev.all : _closed[s] /\ s \notin values

\* close_all returned after closing two sessions while the other thread
\* was inside a call
C10_Witness ==
    /\ ev.f = "close_all"
    /\ ev.v = PyNone
    /\ Cardinality(ev.all) = 2
    /\ pc["reader"] \notin {"idle", "lock"}

\* ---- C11 (IsolationSpec) ----
\* the fields of session r
Fields(r) == <<_link[r], _channel[r], _closed[r], _connected[r], _output_queue[r]>>

\* thread t takes this step
Steps(t) == pc'[t] # pc[t] \/ ev'.t = t

\* C11: a step a caller takes for one session (read_output, blocked or
\* not, send_input, close_session, close) leaves every other session's
\* closed flag, connected flag, output queue, link and channel as they were,
\* and _lock is never held by a thread inside a session method, so lookups
\* of the other session go on while this one is blocked or being closed.
C11_SessionsIsolated ==
    [][\A t \in Threads :
         /\ Steps(t) => \A r \in Sess \ {cur[t], cur'[t]} : Fields(r)' = Fields(r)
         /\ _lock = t => pc[t] \in {"locked", "close_all_clear"}]_vars

\* the reader got data of "B" while the UI thread was blocked in
\* read_output on "A" or in the middle of closing "A"
C11_Witness ==
    /\ ev.t = "reader"
    /\ ev.f = "read_output"
    /\ ev.v.k = "bytes" /\ ev.v.v # NoBytes
    /\ _sessions["B"] = ev.s
    /\ pc["ui"] \in {"read_get", "close_teardown"}
    /\ cur["ui"] \notin {NoSession, ev.s}

\* ---- C12 (BootSpec) ----
\* the last call was init_reticulum for a Sideband-style endpoint
SidebandCall(c) == c.f = "init_reticulum" /\ _is_sideband_target(c.host, c.port)

\* C12: once a transport exists, no bootstrap or probe call replaces it or
\* changes _init_mode, and an identity once loaded stays; and after a
\* bootstrap in gateway mode, init_reticulum for a Sideband-style endpoint
\* returns the identity hash already loaded, without raising and without
\* adding a gateway or an interface.
C12_ModeFixed ==
    [][/\ _reticulum # NoReticulum =>
             _reticulum' = _reticulum /\ _init_mode' = _init_mode
       /\ _identity # NoIdentity => _identity' = _identity
       /\ (/\ _reticulum # NoReticulum
           /\ _init_mode = "gateway"
           /\ _identity # NoIdentity
           /\ SidebandCall(ret')) =>
                /\ ret'.v = PyStr(_identity)
                /\ _gateways' = _gateways
                /\ attached' = attached]_vars

\* a Sideband-style bootstrap was answered in gateway mode, after further
\* gateways had been added
C12_Witness ==
    /\ SidebandCall(ret)
    /\ _init_mode = "gateway"
    /\ ret.v = PyStr(_identity)
    /\ _reticulum.n = 1
    /\ \E e \in Endpoints : _gateways[e] = "TCPClientInterface"

\* ---- C13 (BootSpec) ----
\* C13: no endpoint ever leaves _gateways or changes its entry, the
\* transport has exactly one interface for each endpoint in _gateways and
\* none for any other, and a bootstrap call for an endpoint that is already
\* in _gateways changes neither _gateways nor the interfaces.
C13_GatewaysOnlyGrow ==
    [][/\ \A e \in Endpoints :
             /\ _gateways[e] # Absent => _gateways'[e] = _gateways[e]
             /\ attached'[e] = IF _gateways'[e] # Absent THEN 1 ELSE 0
       /\ (/\ ret'.f = "init_reticulum"
           /\ _gateways[<<ret'.host, ret'.port>>] # Absent) =>
                _gateways' = _gateways /\ attached' = attached]_vars

\* the gateway of the first bootstrap was named again after another gateway
\* had been added
C13_Witness ==
    /\ ret.f = "init_reticulum"
    /\ ret.v.k = "str"
    /\ _gateways[<<ret.host, ret.port>>] = "None"
    /\ \E e \in Endpoints : _gateways[e] = "TCPClientInterface"

\* ---- C14 (AnnounceSpec) ----
\* get_discovered_destinations returns in this step
Listed == ret'.f = "get_discovered_destinations"

\* the entries of a list, as a set
Entries(list) == {list[i] : i \in 1..Len(list)}

\* C14: the list get_discovered_destinations returns has exactly one entry
\* for every destination announced so far and none for any other, each
\* with the hop count of the destination's latest announce (-1 when the
\* path table had no entry, which differs from 0); and no destination ever
\* leaves the cache.
C14_ListIsLatestAnnounces ==
    [][/\ Listed =>
            /\ ret'.v.k = "json"
            /\ Entries(ret'.v.v) = heard
            /\ Len(ret'.v.v) = Cardinality({r.hash : r \in heard})
       /\ keys(_announced) \subseteq keys(_announced')]_vars

\* a list of three destinations was returned in an order other than the
\* cache's, one destination having 0 hops and one an unknown hop count
C14_Witness ==
    /\ ret.f = "get_discovered_destinations"
    /\ Len(ret.v.v) = 3
    /\ \E i, j \in 1..3 : ret.v.v[i].hops = 0 /\ ret.v.v[j].hops = UnknownHops
    /\ \E i \in 1..3 : ret.v.v[i].hash # _announced[i].hash

\* ---- C15 (AnnounceSpec) ----
\* C15: in the list get_discovered_destinations returns, the entries with a
\* known hop count are in ascending order of hop count and no entry with an
\* unknown hop count comes before one with a known hop count.
C15_SortedByHops ==
    [][Listed =>
         \A i, j \in 1..Len(ret'.v.v) :
            i < j =>
               /\ (ret'.v.v[i].hops >= 0 /\ ret'.v.v[j].hops >= 0) =>
                     ret'.v.v[i].hops <= ret'.v.v[j].hops
               /\ ~(ret'.v.v[i].hops < 0 /\ ret'.v.v[j].hops >= 0)]_vars

\* a list was returned whose order differs from the cache's: the cache has
\* an unknown hop count first and the largest known one before a smaller
C15_Witness ==
    /\ ret.f = "get_discovered_destinations"
    /\ Len(_announced) = 3
    /\ _announced[1].hops = UnknownHops
    /\ _announced[2].hops = MaxHops
    /\ _announced[3].hops = 0
    /\ Len(ret.v.v) = 3

\* ---- C18 (SnapshotSpec) ----
\* C18: while announces arrive, get_discovered_destinations returns without
\* raising, and the list it returns is the sorted content the cache had at
\* one moment during the call.
C18_SnapshotIsAtomic ==
    [][Listed =>
         /\ ret'.v.k = "json"
         /\ \E cache \in iter.seen : ret'.v.v = sort(cache)]_vars

\* ---- C16 (Spec) ----
\* no close() is between setting the flags and tearing the link down
Settled(s) == ~\E t \in Threads : pc[t] = "close_teardown" /\ cur[t] = s

\* close() returned for session s in the last step
CloseReturned(s) == ev.f \in {"s.close", "close_session"} /\ ev.s = s

\* C16: however a session got closed, it ends with _closed set, _connected
\* cleared and its link no longer up; and when close() returns, also for a
\* session that was closed already, the session is in that state.
C16_ClosedIsOneState ==
    \A s \in Sess :
        /\ (_closed[s] /\ Settled(s)) =>
              ~_connected[s] /\ _link[s] \notin {"pending", "active"}
        /\ CloseReturned(s) =>
              /\ _closed[s] /\ ~_connected[s]
              /\ _link[s] \notin {"pending", "active"}

\* ---- C17 (Spec) ----
\* C17: no callback the transport thread runs ends with an exception that
\* reaches the transport.
C17_NothingEscapes == ~(ev.t = NoThread /\ ev.v.k = "raise")

\* ---- C19 (Spec) ----
\* C19: a fatal ErrorMessage does to <<_closed, _output_queue>> what a
\* CommandExitedMessage does: it sets _closed and appends the sentinel; a
\* non-fatal one leaves both as they are; and no dispatched message changes
\* _connected or the link.
C19_OnlyFatalErrorCloses ==
    [][\A s \in Sess :
         /\ on_message_effect(s, ErrorMessage(TRUE)) =
                <<TRUE, Append(_output_queue[s], PyNone)>>
         /\ on_message_effect(s, ErrorMessage(TRUE)) =
                on_message_effect(s, CommandExitedMessage)
         /\ on_message_effect(s, ErrorMessage(FALSE)) = <<_closed[s], _output_queue[s]>>
         /\ nmsg'[s] # nmsg[s] =>
               /\ _connected'[s] = _connected[s]
               /\ _link'[s] = _link[s]
               /\ <<_closed'[s], _output_queue'[s]>> \in
                     {on_message_effect(s, m) : m \in InboundMessages(s)}]_vars

\* a session was closed by a fatal error: nothing else closes a session
\* and leaves it connected, with its link up and no command-exited seen
C19_Witness ==
    \E s \in Sess :
        /\ _closed[s] /\ _connected[s]
        /\ _link[s] = "active"
        /\ exit_seen[s] = "no"
        /\ nmsg[s] = MaxMsgs
        /\ Len(_output_queue[s]) = 1

\* ---- C20 (HandshakeSpec) ----
\* _on_link_established has been called for session s
Established(s) == _channel[s] \/ tcur = s

\* C20: create_session returns its session id, and the session is in the
\* table, only if the link-established callback ran for the session.
C20_RegisteredWasEstablished ==
    /\ \A s \in values : Established(s)
    /\ (ev.f = "create_session" /\ ev.v.k = "str") => Established(ev.s)

\* ---- C21 (RegistrySpec) ----
\* a close_session or close_all that took session s out of the table is
\* on its way to close it
BeingClosed(s) ==
    \E t \in Threads :
        /\ op[t] \in {"close_session", "close_all"}
        /\ cur[t] = s \/ s \in snap[t].todo

\* C21: every session that create_session registered and that is not
\* closed is in the table under some id, unless the close_session or
\* close_all that removed it is about to close it; so no create_session,
\* with an id already present or finishing while close_all runs, leaves an
\* open session outside the table.
C21_OpenSessionsStayRegistered ==
    \A s \in Sess :
        (life[s] = "done" /\ ~_closed[s] /\ ~BeingClosed(s)) => s \in values

====
